---- MODULE Spec2Model ----
(***************************************************************************)
(* Model of torchgeo/datasets/flair2.py (class FLAIR2).                    *)
(*                                                                         *)
(* Strings that the code rewrites (directory names) are sequences of       *)
(* tokens, so that str.replace is computed and not assumed.  A path is a   *)
(* sequence of components, each component a token sequence.                *)
(***************************************************************************)
EXTENDS Integers, Sequences, FiniteSets, TLC

VARIABLES dir_names, fs_dirs, fs_files, prev_fs, instances,
          stat, image, sentinel, mask

vars == <<dir_names, fs_dirs, fs_files, prev_fs, instances,
          stat, image, sentinel, mask>>

(***************************************************************************)
(* Bounds of the model.                                                    *)
(***************************************************************************)
MaxInstances == 2

SamplesPerDir == 2

MaxRaw == 1

MaxCoordOffset == 2

MaxRawLabel == 19

MaskLen == 2

MaxChannels == 5

(***************************************************************************)
(* Class attributes.                                                       *)
(***************************************************************************)
splits == <<"train", "test">>

ModalityKeys == <<"images", "sentinels", "masks">>

dir_names_initial ==
    [train |-> [images    |-> <<"flair", "_aerial", "_train">>,
                sentinels |-> <<"flair", "_sen", "_train">>,
                masks     |-> <<"flair", "_labels", "_train">>],
     test  |-> [images    |-> <<"flair", "_2", "_aerial", "_test">>,
                sentinels |-> <<"flair", "_2", "_sen", "_test">>,
                masks     |-> <<"flair", "_2", "_labels", "_test">>]]

\* A glob entry is a plain string for images and masks and a dict of two
\* strings for sentinels.
globs ==
    [images    |-> [type |-> "str",  pats |-> <<"IMG_*.tif">>],
     sentinels |-> [type |-> "dict", pats |-> <<"SEN2_*_data.npy", "SEN2_*_masks.npy">>],
     masks     |-> [type |-> "str",  pats |-> <<"MSK_*.tif">>]]

centroids_file == <<"flair-2_centroids_sp_to_patch">>

toy_dataset == <<"flair", "_2", "_toy", "_dataset">>

super_patch_size == 40

rgb_bands == <<"B01", "B02", "B03">>

all_bands == <<"B01", "B02", "B03", "B04", "B05">>

classes ==
    <<"building", "pervious surface", "impervious surface", "bare soil",
      "water", "coniferous", "deciduous", "brushwood", "vineyard",
      "herbaceous vegetation", "agricultural land", "plowed land", "other">>

(***************************************************************************)
(* Strings and paths.                                                      *)
(***************************************************************************)
Range(s) == {s[i] : i \in DOMAIN s}

\* str.replace(old, new): every non-overlapping occurrence, left to right.
RECURSIVE Replace(_, _, _)
Replace(s, old, new) ==
    IF Len(s) < Len(old) THEN s
    ELSE LET hit == SubSeq(s, 1, Len(old)) = old
             head == IF hit THEN new ELSE <<Head(s)>>
             rest == IF hit THEN SubSeq(s, Len(old) + 1, Len(s)) ELSE Tail(s)
         IN  head \o Replace(rest, old, new)

\* os.path.join(path, name)
join(path, name) == Append(path, name)

zip_of(name) == name \o <<".zip">>

json_of(name) == name \o <<".json">>

\* The root every instance is constructed with.
root_arg == << <<"data">> >>

\* A loader that has not been called.
Idle == [done |-> FALSE]

(***************************************************************************)
(* The collaborators of .utils: download_url(url, root) stores the file    *)
(* named by the url's last component under root; extract_archive(zipfile)  *)
(* unpacks the archive next to itself.  An archive holds what its name     *)
(* says: the centroid archive the json file, a directory archive the       *)
(* directory with the files of its modality, the toy archive the toy       *)
(* directory with the six toy directories and the centroid file.           *)
(***************************************************************************)
DownloadUrl(files, root, filename) == files \cup {join(root, filename)}

PatternsOf(name) ==
    IF "_aerial" \in Range(name) THEN Range(globs.images.pats)
    ELSE IF "_sen" \in Range(name) THEN Range(globs.sentinels.pats)
    ELSE IF "_labels" \in Range(name) THEN Range(globs.masks.pats)
    ELSE {}

toy_dir_names ==
    [train |-> [images    |-> <<"flair", "_2", "_toy", "_aerial", "_train">>,
                sentinels |-> <<"flair", "_2", "_toy", "_sen", "_train">>,
                masks     |-> <<"flair", "_2", "_toy", "_labels", "_train">>],
     test  |-> [images    |-> <<"flair", "_2", "_toy", "_aerial", "_test">>,
                sentinels |-> <<"flair", "_2", "_toy", "_sen", "_test">>,
                masks     |-> <<"flair", "_2", "_toy", "_labels", "_test">>]]

ToyContentDirs(root) ==
    LET toyroot == join(root, toy_dataset)
        sub == {<<s, k>> : s \in Range(splits), k \in Range(ModalityKeys)}
        paths == {join(toyroot, toy_dir_names[sk[1]][sk[2]]) : sk \in sub}
    IN  [p \in paths \cup {toyroot} |->
            IF p = toyroot THEN {} ELSE PatternsOf(p[Len(p)])]

\* Right-biased merge: the entries of g win.
Overlay(f, g) == [p \in DOMAIN f \cup DOMAIN g |-> IF p \in DOMAIN g THEN g[p] ELSE f[p]]

ExtractArchive(dirs, files, root, name) ==
    IF name = centroids_file
    THEN [dirs |-> dirs, files |-> files \cup {join(root, json_of(name))}]
    ELSE IF name = toy_dataset
    THEN [dirs  |-> Overlay(dirs, ToyContentDirs(root)),
          files |-> files \cup {join(join(root, toy_dataset), json_of(centroids_file))}]
    ELSE [dirs  |-> Overlay(dirs, [p \in {join(root, name)} |-> PatternsOf(name)]),
          files |-> files]

(***************************************************************************)
(* A run of the constructor threads a record st through the statements:    *)
(*   root, dir_names  the attributes the run reads and rebinds             *)
(*   dirs, files      the file system                                      *)
(*   log              the checks, downloads, extractions and rebindings    *)
(*   to_extract,      the local lists of verify, as they stood when it     *)
(*   to_download      ended                                                *)
(*   out              "run" while executing, then "ok" or the exception    *)
(***************************************************************************)
Ev(op, name, ok) == [op |-> op, name |-> name, ok |-> ok]

Log(st, e) == [st EXCEPT !.log = Append(@, e)]

Raise(st, exc) == [st EXCEPT !.out = exc]

isfile(st, path) == path \in st.files

isdir(st, path) == path \in DOMAIN st.dirs

\* glob.glob(os.path.join(path, "**", pattern), recursive=True) is non-empty
glob_hit(st, path, pattern) == path \in DOMAIN st.dirs /\ pattern \in st.dirs[path]

download(st, name) ==
    Log([st EXCEPT !.files = DownloadUrl(@, st.root, zip_of(name))],
        Ev("download", name, TRUE))

extract(st, name) ==
    LET zipfile == join(st.root, zip_of(name))
        there == zipfile \in st.files
        s1 == Log(st, Ev("extract", name, there))
        x == ExtractArchive(st.dirs, st.files, st.root, name)
    IN  IF there
        THEN [s1 EXCEPT !.dirs = x.dirs, !.files = x.files]
        ELSE Raise(s1, "FileNotFoundError")

verify_toy(self, st) ==
    LET toydir == join(st.root, toy_dataset)
        toyzip == join(st.root, zip_of(toy_dataset))
        rebind(s) == Log([s EXCEPT !.root = join(s.root, toy_dataset)],
                         Ev("rebind", toy_dataset, TRUE))
        s1 == Log(st, Ev("isdir", toy_dataset, isdir(st, toydir)))
        s2 == Log(s1, Ev("isfile", zip_of(toy_dataset), isfile(s1, toyzip)))
    IN  IF isdir(st, toydir) THEN rebind(s1)
        ELSE IF isfile(s1, toyzip)
        THEN LET s3 == extract(s2, toy_dataset)
             IN  IF s3.out = "run" THEN rebind(s3) ELSE s3
        ELSE IF ~self.download THEN Raise(s2, "DatasetNotFoundError")
        ELSE LET s3 == extract(download(s2, toy_dataset), toy_dataset)
             IN  IF s3.out = "run" THEN rebind(s3) ELSE s3

verify_centroids(self, st) ==
    LET json == join(st.root, json_of(centroids_file))
        zip == join(st.root, zip_of(centroids_file))
        s1 == Log(st, Ev("isfile", json_of(centroids_file), isfile(st, json)))
        s2 == Log(s1, Ev("isfile", zip_of(centroids_file), isfile(s1, zip)))
    IN  IF isfile(st, json) THEN s1
        ELSE IF ~isfile(s1, zip)
        THEN IF ~self.download THEN Raise(s2, "DatasetNotFoundError")
             ELSE extract(download(s2, centroids_file), centroids_file)
        ELSE extract(s2, centroids_file)

\* The loop over self.dir_names[self.split].items(), which fills to_extract.
RECURSIVE scan_dirs(_, _, _)
scan_dirs(self, st, keys) ==
    IF keys = <<>> \/ st.out # "run" THEN st
    ELSE LET train_or_test == Head(keys)
             dir_name == st.dir_names[self.split][train_or_test]
             downloaded_path == join(st.root, dir_name)
             there == isdir(st, downloaded_path)
             hit == glob_hit(st, downloaded_path, globs[train_or_test].pats[1])
             s1 == Log(st, Ev("isdir", dir_name, there))
             \* one pass of the loop body
             pass ==
                IF ~there
                THEN [s1 EXCEPT !.to_extract = Append(@, dir_name)]
                ELSE IF globs[train_or_test].type # "str"
                THEN Raise(s1, "TypeError")
                ELSE [s1 EXCEPT !.log = Append(@, Ev("glob", dir_name, hit)),
                                !.to_extract = IF hit THEN @ ELSE Append(@, dir_name)]
         IN  scan_dirs(self, pass, Tail(keys))

\* list.remove(x): drops the first occurrence.
Remove(s, x) ==
    LET at == {i \in DOMAIN s : s[i] = x}
        first == CHOOSE i \in at : \A j \in at : i <= j
    IN  SubSeq(s, 1, first - 1) \o SubSeq(s, first + 1, Len(s))

\* The loop over to_extract that unpacks the archives found on disk and drops
\* them from to_download.
RECURSIVE extract_local(_, _)
extract_local(st, candidates) ==
    IF candidates = <<>> \/ st.out # "run" THEN st
    ELSE LET candidate == Head(candidates)
             zipfile == join(st.root, zip_of(candidate))
             found == isfile(st, zipfile)
             s1 == Log(st, Ev("isfile", zip_of(candidate), found))
             pass == IF found
                     THEN [extract(s1, candidate) EXCEPT
                              !.to_download = Remove(@, candidate)]
                     ELSE s1
         IN  extract_local(pass, Tail(candidates))

\* The loop over to_download.
RECURSIVE fetch_all(_, _)
fetch_all(st, to_download) ==
    IF to_download = <<>> \/ st.out # "run" THEN st
    ELSE fetch_all(extract(download(st, Head(to_download)), Head(to_download)),
                   Tail(to_download))

Done(st) == IF st.out = "run" THEN [st EXCEPT !.out = "ok"] ELSE st

\* The statements after the first loop: return when nothing is marked, else
\* copy to_extract and unpack what is on disk.
verify_local(st) ==
    IF st.out # "run" THEN st
    ELSE IF st.to_extract = <<>> THEN Done(st)
    ELSE extract_local([st EXCEPT !.to_download = st.to_extract], st.to_extract)

\* The statements after the second loop.
verify_remote(self, st) ==
    IF st.out # "run" THEN st
    ELSE IF st.to_download = <<>> THEN Done(st)
    ELSE IF ~self.download THEN Raise(st, "DatasetNotFoundError")
    ELSE Done(fetch_all(st, st.to_download))

\* The two assignments to self.dir_names of toy mode.
rename_toy(st) ==
    IF st.out # "run" THEN st
    ELSE Done([st EXCEPT !.dir_names =
            [s \in {"train", "test"} |->
                [k \in DOMAIN st.dir_names[s] |->
                    IF s = "train"
                    THEN Replace(st.dir_names[s][k], <<"flair">>,
                                 <<"flair", "_2", "_toy">>)
                    ELSE Replace(st.dir_names[s][k], <<"flair", "_2">>,
                                 <<"flair", "_2", "_toy">>)]]])

verify(self, st) ==
    IF self.use_toy
    THEN rename_toy(verify_toy(self, st))
    ELSE verify_remote(self,
            verify_local(scan_dirs(self, verify_centroids(self, st), ModalityKeys)))

\* open(os.path.join(self.root, centroids_file + ".json"))
load_centroids(st) ==
    IF isfile(st, join(st.root, json_of(centroids_file)))
    THEN st ELSE Raise(st, "FileNotFoundError")

Min(S) == CHOOSE m \in S : \A n \in S : m <= n

\* The number of records zip() pairs from the four sorted glob results.
load_files(self, st) ==
    LET count(key, i) ==
            IF glob_hit(st, join(st.root, st.dir_names[self.split][key]), globs[key].pats[i])
            THEN SamplesPerDir ELSE 0
    IN  Min({count("images", 1), count("sentinels", 1), count("sentinels", 2),
             count("masks", 1)})

\* self.dir_names as an instance reads it: no instance ever binds the
\* attribute, so the lookup lands on the table of the class.
resolve_dir_names(inst) == dir_names

(***************************************************************************)
(* FLAIR2(root, split, bands, transforms, download, checksum, use_toy)     *)
(***************************************************************************)
Construct(split, dl, use_toy) ==
    /\ Len(instances) < MaxInstances
    /\ split \in Range(splits)          \* assert split in self.splits
    /\ LET self == [split |-> split, download |-> dl, use_toy |-> use_toy]
           st0 == [root |-> root_arg, dir_names |-> dir_names, dirs |-> fs_dirs,
                   files |-> fs_files, log |-> <<>>, to_extract |-> <<>>,
                   to_download |-> <<>>, out |-> "run"]
           v == verify(self, st0)
           c == IF v.out = "ok" THEN load_centroids(v) ELSE v
           n == IF c.out = "ok" THEN load_files(self, c) ELSE 0
       IN  /\ dir_names' = c.dir_names
           /\ fs_dirs' = c.dirs
           /\ fs_files' = c.files
           /\ prev_fs' = [dirs |-> fs_dirs, files |-> fs_files, dir_names |-> dir_names]
           /\ instances' = Append(instances,
                 [split |-> split, download |-> dl, use_toy |-> use_toy,
                  root |-> c.root, verify_out |-> v.out, out |-> c.out,
                  log |-> c.log,
                  to_extract |-> c.to_extract, files |-> n])
    /\ UNCHANGED <<stat, image, sentinel, mask>>

\* The file system the process starts with, under root_arg: the centroid file
\* or its archive, the three train directories (absent, without matching
\* files, or with them) and their archives, the toy directory (absent, bare,
\* or complete) and its archive.  An archive is varied only where the code
\* can come to look at it: beside an item whose extracted form is not valid
\* (an extraction that was interrupted leaves the archive beside a missing
\* or bare directory).
\* Normal-mode runs never look at the toy entries nor toy-mode runs at the
\* others, so either the toy part or the other part is left empty.
InitFS ==
    \E cen \in {{json_of(centroids_file)}, {zip_of(centroids_file)}, {}},
       dstate \in [Range(ModalityKeys) -> {"absent", "empty", "full"}],
       zstate \in SUBSET Range(ModalityKeys),
       toy \in {"absent", "empty", "full"},
       toyzip \in BOOLEAN :
        /\ \A k \in zstate : dstate[k] # "full"
        /\ toyzip => toy # "full"
        /\ (toy # "absent" \/ toyzip)
              => (cen = {} /\ zstate = {}
                  /\ \A k \in Range(ModalityKeys) : dstate[k] = "absent")
        /\ LET name(k) == dir_names_initial.train[k]
               present == {k \in Range(ModalityKeys) : dstate[k] # "absent"}
               plain == [p \in {join(root_arg, name(k)) : k \in present} |->
                           LET k == CHOOSE kk \in present : join(root_arg, name(kk)) = p
                           IN  IF dstate[k] = "full" THEN Range(globs[k].pats) ELSE {}]
               toydirs == IF toy = "absent" THEN <<>>
                          ELSE IF toy = "empty"
                          THEN [p \in {join(root_arg, toy_dataset)} |-> {}]
                          ELSE ToyContentDirs(root_arg)
           IN  /\ fs_dirs = Overlay(plain, toydirs)
               /\ fs_files = {join(root_arg, f) : f \in cen}
                       \cup {join(root_arg, zip_of(name(k))) : k \in zstate}
                       \cup (IF toyzip THEN {join(root_arg, zip_of(toy_dataset))} ELSE {})
                       \cup (IF toy = "full"
                             THEN {join(join(root_arg, toy_dataset), json_of(centroids_file))}
                             ELSE {})

Init ==
    /\ dir_names = dir_names_initial
    /\ InitFS
    /\ prev_fs = [dirs |-> fs_dirs, files |-> fs_files, dir_names |-> dir_names]
    /\ instances = <<>>
    /\ stat = Idle /\ image = Idle /\ sentinel = Idle /\ mask = Idle

Next ==
    \E split \in Range(splits), dl \in BOOLEAN, use_toy \in BOOLEAN :
        Construct(split, dl, use_toy)

Spec == Init /\ [][Next]_vars

(***************************************************************************)
(* per_band_statistics.  The literals of the table are kept to three       *)
(* decimals, in thousandths.  statistics_keys is the insertion order of    *)
(* the per-split dict, which is the order .items() yields.                 *)
(***************************************************************************)
statistics ==
    [train |->
        [B01 |-> [min |-> 0, max |-> 255000, mean |-> 113775, stdv |-> 1467],
         B02 |-> [min |-> 0, max |-> 255000, mean |-> 118081, stdv |-> 1288],
         B03 |-> [min |-> 0, max |-> 255000, mean |-> 109273, stdv |-> 1267],
         B04 |-> [min |-> 0, max |-> 255000, mean |-> 102364, stdv |-> 1105],
         B05 |-> [min |-> 0, max |-> 255000, mean |-> 16697, stdv |-> 827]]]

statistics_keys == <<"B01", "B02", "B03", "B04", "B05">>

Map(f(_), s) == [i \in DOMAIN s |-> f(s[i])]

per_band_statistics(split, bands) ==
    IF split \notin DOMAIN statistics
    THEN [out |-> "AssertionError"]
    ELSE LET kept == SelectSeq(statistics_keys, LAMBDA key : key \in Range(bands))
             ordered_bands_statistics == Map(LAMBDA key : statistics[split][key], kept)
         IN  [out   |-> "ok",
              mins  |-> Map(LAMBDA d : d.min, ordered_bands_statistics),
              maxs  |-> Map(LAMBDA d : d.max, ordered_bands_statistics),
              means |-> Map(LAMBDA d : d.mean, ordered_bands_statistics),
              stdvs |-> Map(LAMBDA d : d.stdv, ordered_bands_statistics)]

\* The band sequences a caller can request: the bands of any non-empty subset
\* of all_bands, in any order.
BandRequests ==
    {b \in UNION {[1..n -> Range(all_bands)] : n \in 1..Len(all_bands)} :
        \A i, j \in DOMAIN b : i # j => b[i] # b[j]}

get_num_bands(bands) == Len(bands)

(***************************************************************************)
(* _load_image.  The raster is the sequence of the channels the file       *)
(* stores, one raw value per channel; a float is kept in fifths, so that   *)
(* the division of the height channel by 5 is exact.                       *)
(***************************************************************************)
Float(v) == 5 * v

load_image(bands, raster) ==
    LET tensor == Map(Float, raster)
    IN  IF "B05" \in Range(bands)
        THEN [tensor EXCEPT ![Len(tensor)] = @ \div 5]
        ELSE tensor

(***************************************************************************)
(* _crop_super_patch and _load_sentinel.  An array is the view it gives of *)
(* the file it was loaded from: the rows and the columns of the file that  *)
(* it holds, in order.  A slice is its start and stop.                     *)
(***************************************************************************)
Iota(n) == [i \in 1..n |-> i - 1]

Loaded(src, height, width) == [src |-> src, rows |-> Iota(height), cols |-> Iota(width)]

slice(start, stop) == [start |-> start, stop |-> stop]

\* The window with the centroid read as (x, y).
crop_super_patch_xy(data, centroid) ==
    LET x == centroid[1]
        y == centroid[2]
        eigth_size == super_patch_size \div 8
        quarter_size == super_patch_size \div 4
        indices == <<slice(x - eigth_size, x + quarter_size),
                     slice(y - eigth_size, y + quarter_size)>>
    IN  <<data, indices>>

crop_super_patch(data, centroid) ==
    LET y == centroid[1]
        x == centroid[2]
        eigth_size == super_patch_size \div 8
        quarter_size == super_patch_size \div 4
        indices == <<slice(x - eigth_size, x + quarter_size),
                     slice(y - eigth_size, y + quarter_size)>>
    IN  <<data, indices>>

load_sentinel(data, snow_cloud_mask, centroid) ==
    LET cropped == crop_super_patch(data, centroid)
        cropped_mask == crop_super_patch(snow_cloud_mask, centroid)
    IN  << <<cropped[1], cropped_mask[1]>>, cropped[2] >>

(***************************************************************************)
(* _load_target.  The mask is the sequence of its raw label values.        *)
(***************************************************************************)
clamp(v, lo, hi) == IF v < lo THEN lo ELSE IF v > hi THEN hi ELSE v

\* The remap without the shift by one: clamp(tensor, 0, len(classes)).
load_target_unshifted(raw) == Map(LAMBDA v : clamp(v, 0, Len(classes)), raw)

load_target(raw) == Map(LAMBDA v : clamp(v - 1, 0, Len(classes) - 1), raw)

(***************************************************************************)
(* Specifications of the loaders: the inputs are drawn by the initial      *)
(* predicate and the one action applies the function.                      *)
(***************************************************************************)
NoProcess ==
    /\ dir_names = dir_names_initial
    /\ fs_dirs = <<>>
    /\ fs_files = {}
    /\ prev_fs = [dirs |-> fs_dirs, files |-> fs_files, dir_names |-> dir_names]
    /\ instances = <<>>

InitStatistics ==
    /\ NoProcess
    /\ \E split \in {"train", "test"}, bands \in BandRequests :
          stat = [done |-> FALSE, split |-> split, bands |-> bands, result |-> <<>>]
    /\ image = Idle /\ sentinel = Idle /\ mask = Idle

CallStatistics ==
    /\ ~stat.done
    /\ stat' = [stat EXCEPT !.done = TRUE,
                            !.result = per_band_statistics(stat.split, stat.bands)]
    /\ UNCHANGED <<dir_names, fs_dirs, fs_files, prev_fs, instances,
                   image, sentinel, mask>>

SpecStatistics == InitStatistics /\ [][CallStatistics]_vars

Rasters == UNION {[1..n -> 0..MaxRaw] : n \in 1..MaxChannels}

InitImage ==
    /\ NoProcess
    /\ \E bands \in BandRequests, raster \in Rasters :
          image = [done |-> FALSE, bands |-> bands, raster |-> raster, result |-> <<>>]
    /\ stat = Idle /\ sentinel = Idle /\ mask = Idle

LoadImage ==
    /\ ~image.done
    /\ image' = [image EXCEPT !.done = TRUE,
                              !.result = load_image(image.bands, image.raster)]
    /\ UNCHANGED <<dir_names, fs_dirs, fs_files, prev_fs, instances,
                   stat, sentinel, mask>>

SpecImage == InitImage /\ [][LoadImage]_vars

Coords == (0 - MaxCoordOffset)..(super_patch_size + MaxCoordOffset)

InitSentinel ==
    /\ NoProcess
    /\ \E y \in Coords, x \in Coords :
          sentinel = [done |-> FALSE, centroid |-> <<y, x>>,
                      data |-> Loaded("data", super_patch_size, super_patch_size),
                      snow_cloud_mask |->
                          Loaded("snow_cloud_mask", super_patch_size, super_patch_size),
                      result |-> <<>>]
    /\ stat = Idle /\ image = Idle /\ mask = Idle

LoadSentinel ==
    /\ ~sentinel.done
    /\ sentinel' = [sentinel EXCEPT !.done = TRUE,
                       !.result = load_sentinel(sentinel.data, sentinel.snow_cloud_mask,
                                                sentinel.centroid)]
    /\ UNCHANGED <<dir_names, fs_dirs, fs_files, prev_fs, instances,
                   stat, image, mask>>

SpecSentinel == InitSentinel /\ [][LoadSentinel]_vars

InitTarget ==
    /\ NoProcess
    /\ \E raw \in [1..MaskLen -> 0..MaxRawLabel] :
          mask = [done |-> FALSE, raw |-> raw, result |-> <<>>]
    /\ stat = Idle /\ image = Idle /\ sentinel = Idle

LoadTarget ==
    /\ ~mask.done
    /\ mask' = [mask EXCEPT !.done = TRUE, !.result = load_target(mask.raw)]
    /\ UNCHANGED <<dir_names, fs_dirs, fs_files, prev_fs, instances,
                   stat, image, sentinel>>

SpecTarget == InitTarget /\ [][LoadTarget]_vars

(***************************************************************************)
(* Vocabulary of the acquisition claims.  prev_fs is the file system and   *)
(* the directory-name table as they stood when the latest construction     *)
(* began; Last is that construction.                                       *)
(***************************************************************************)
Last == instances[Len(instances)]

Fetches(log) == SelectSeq(log, LAMBDA e : e.op \in {"download", "extract"})

OpsOn(log, ops, name) == {i \in DOMAIN log : log[i].op \in ops /\ log[i].name = name}

\* The directory of that name holds at least one file for each glob pattern of key.
ValidDir(fs, name, key) ==
    /\ join(root_arg, name) \in DOMAIN fs.dirs
    /\ Range(globs[key].pats) \subseteq fs.dirs[join(root_arg, name)]

HasZip(fs, name) == join(root_arg, zip_of(name)) \in fs.files

HasJson(fs) == join(root_arg, json_of(centroids_file)) \in fs.files

ToyComplete(fs) ==
    /\ \A p \in DOMAIN ToyContentDirs(root_arg) :
          p \in DOMAIN fs.dirs /\ ToyContentDirs(root_arg)[p] \subseteq fs.dirs[p]
    /\ join(join(root_arg, toy_dataset), json_of(centroids_file)) \in fs.files

\* Everything the configuration needs is extracted and valid.
AllPresent(fs, self) ==
    IF self.use_toy THEN ToyComplete(fs)
    ELSE /\ HasJson(fs)
         /\ \A k \in Range(ModalityKeys) : ValidDir(fs, fs.dir_names[self.split][k], k)

\* Some needed item is there neither extracted nor as an archive.
SomeItemGone(fs, self) ==
    IF self.use_toy
    THEN join(root_arg, toy_dataset) \notin DOMAIN fs.dirs /\ ~HasZip(fs, toy_dataset)
    ELSE \/ ~HasJson(fs) /\ ~HasZip(fs, centroids_file)
         \/ \E k \in Range(ModalityKeys) :
               /\ ~ValidDir(fs, fs.dir_names[self.split][k], k)
               /\ ~HasZip(fs, fs.dir_names[self.split][k])

SameSettings(a, b) ==
    a.split = b.split /\ a.download = b.download /\ a.use_toy = b.use_toy

\* C1: when a construction ran with everything present and valid (so it
\* fetched nothing) and the same construction is run again, the second run
\* downloads nothing, extracts nothing and ends without raising.
C1_SecondRunIsNoOp ==
    Len(instances) >= 2 =>
        LET a == instances[Len(instances) - 1]
            b == Last
        IN  (SameSettings(a, b) /\ Fetches(a.log) = <<>> /\ AllPresent(prev_fs, b))
                => (b.verify_out = "ok" /\ Fetches(b.log) = <<>>)

\* C2: with downloading disabled a run that finds an item neither extracted
\* nor archived ends in DatasetNotFoundError, and no run with downloading
\* disabled downloads anything.
C2_MissingWithoutDownloadRaises ==
    Len(instances) >= 1 =>
        (~Last.download =>
            /\ SomeItemGone(prev_fs, Last) => Last.verify_out = "DatasetNotFoundError"
            /\ \A i \in DOMAIN Last.log : Last.log[i].op # "download")

\* The instance began in toy mode with downloading enabled and found neither
\* the toy directory nor the toy archive.
ToyFetched(inst) ==
    /\ inst.use_toy /\ inst.download
    /\ Len(inst.log) >= 2
    /\ inst.log[1] = Ev("isdir", toy_dataset, FALSE)
    /\ inst.log[2] = Ev("isfile", zip_of(toy_dataset), FALSE)

ToySequence(inst) ==
    /\ SubSeq(inst.log, 3, Len(inst.log)) =
          <<Ev("download", toy_dataset, TRUE), Ev("extract", toy_dataset, TRUE),
            Ev("rebind", toy_dataset, TRUE)>>
    /\ inst.root = join(root_arg, toy_dataset)
    /\ inst.verify_out = "ok"

\* C3: such an instance performs exactly download, extract, rebind of the toy
\* archive and nothing after it, and from then on every directory name it
\* resolves is the original name with its prefix replaced once.
C3_ToyFetchThenToyNames ==
    \A i \in DOMAIN instances :
        ToyFetched(instances[i]) =>
            /\ ToySequence(instances[i])
            /\ \A s \in Range(splits), k \in Range(ModalityKeys) :
                  dir_names[s][k] = toy_dir_names[s][k]

\* The run reached the loop over the directories of its split.
Scanned(inst) ==
    /\ ~inst.use_toy
    /\ \E i \in DOMAIN inst.log : inst.log[i].op = "isdir"

\* C9: once the centroid step has passed, all three directories are checked
\* without error, a directory is marked for extraction exactly when it is
\* absent or holds no matching file, and a valid directory is never
\* extracted or downloaded.
C9_ScanMarksExactly ==
    (Len(instances) >= 1 /\ Scanned(Last)) =>
        /\ Last.verify_out # "TypeError"
        /\ \A k \in Range(ModalityKeys) :
              LET name == prev_fs.dir_names[Last.split][k]
              IN  /\ OpsOn(Last.log, {"isdir"}, name) # {}
                  /\ (name \in Range(Last.to_extract)) <=> ~ValidDir(prev_fs, name, k)
                  /\ ValidDir(prev_fs, name, k)
                        => OpsOn(Last.log, {"download", "extract"}, name) = {}

\* An item the run found missing: its check answered FALSE.
FoundMissing(inst) ==
    {e.name : e \in {inst.log[i] : i \in {j \in DOMAIN inst.log :
        /\ inst.log[j].op \in {"isdir", "glob"}
        /\ ~inst.log[j].ok}}}
    \cup (IF \E i \in DOMAIN inst.log :
                inst.log[i] = Ev("isfile", json_of(centroids_file), FALSE)
          THEN {centroids_file} ELSE {})

C10_ExtractOnlyPresent ==
    Len(instances) >= 1 =>
        \A i \in DOMAIN Last.log : Last.log[i].op = "extract" => Last.log[i].ok

C10_LocalArchiveExtracted ==
    Len(instances) >= 1 =>
        \A name \in FoundMissing(Last) :
            HasZip(prev_fs, name) =>
                /\ OpsOn(Last.log, {"extract"}, name) # {}
                /\ OpsOn(Last.log, {"download"}, name) = {}

C10_DownloadThenExtract ==
    Len(instances) >= 1 =>
        \A i \in DOMAIN Last.log :
            Last.log[i].op = "download" =>
                /\ i + 1 \in DOMAIN Last.log
                /\ Last.log[i + 1] = Ev("extract", Last.log[i].name, TRUE)

C10_CentroidFirst ==
    Len(instances) >= 1 =>
        \A i, j \in DOMAIN Last.log :
            (/\ Last.log[i].op \in {"download", "extract"}
             /\ Last.log[j].op \in {"download", "extract"}
             /\ Last.log[i].name = centroids_file
             /\ Last.log[j].name # centroids_file) => i < j

\* C10: an archive is extracted only while it is present locally; an archive
\* present when its item is found missing is extracted and never downloaded;
\* every download is followed at once by the extraction of the same archive;
\* the centroid archive is handled before any directory archive.
C10_ArchiveHandling ==
    /\ C10_ExtractOnlyPresent
    /\ C10_LocalArchiveExtracted
    /\ C10_DownloadThenExtract
    /\ C10_CentroidFirst

(***************************************************************************)
(* The loaders' claims.                                                    *)
(***************************************************************************)
\* C4: the image of a sample has as many channels as bands were requested,
\* whatever the number of channels the raster file stores.
C4_ImageHasRequestedBands ==
    image.done => Len(image.result) = get_num_bands(image.bands)

\* Python's slice on an axis of length n: the positions it selects.
Norm(i, n) == IF i < 0 THEN (IF i + n < 0 THEN 0 ELSE i + n) ELSE IF i > n THEN n ELSE i

Restrict(axis, sl) ==
    LET lo == Norm(sl.start, Len(axis))
        hi == Norm(sl.stop, Len(axis))
    IN  IF lo < hi THEN SubSeq(axis, lo + 1, hi) ELSE <<>>

Inside(sl, n) == 0 <= sl.start /\ sl.stop <= n

CropExtent == (super_patch_size \div 4) + (super_patch_size \div 8)

CroppedTo(array, loaded, window) ==
    /\ array.src = loaded.src
    /\ array.rows = Restrict(loaded.rows, window[1])
    /\ array.cols = Restrict(loaded.cols, window[2])
    /\ (Inside(window[1], Len(loaded.rows)) /\ Inside(window[2], Len(loaded.cols)))
          => (Len(array.rows) = CropExtent /\ Len(array.cols) = CropExtent)

\* C5: the satellite data and the quality mask of a sample are both the
\* loaded arrays restricted to the returned crop window, 15 x 15 for a
\* window inside the array.
C5_BothCroppedToWindow ==
    sentinel.done =>
        /\ CroppedTo(sentinel.result[1][1], sentinel.data, sentinel.result[2])
        /\ CroppedTo(sentinel.result[1][2], sentinel.snow_cloud_mask, sentinel.result[2])

\* C6: the four lists hold exactly the requested bands' entries, in the
\* order of the request.
C6_StatisticsInRequestOrder ==
    (stat.done /\ stat.split = "train") =>
        /\ stat.result.out = "ok"
        /\ \A list \in {stat.result.mins, stat.result.maxs,
                        stat.result.means, stat.result.stdvs} :
              Len(list) = Len(stat.bands)
        /\ \A i \in DOMAIN stat.bands :
              /\ stat.result.mins[i] = statistics.train[stat.bands[i]].min
              /\ stat.result.maxs[i] = statistics.train[stat.bands[i]].max
              /\ stat.result.means[i] = statistics.train[stat.bands[i]].mean
              /\ stat.result.stdvs[i] = statistics.train[stat.bands[i]].stdv

\* C7: for centroid (y, x) the window is rows [x - 5, x + 10) and columns
\* [y - 5, y + 10): the first range comes from the second component, and
\* both ranges have length 15 whatever the centroid.
C7_CropWindow ==
    sentinel.done =>
        LET y == sentinel.centroid[1]
            x == sentinel.centroid[2]
            window == sentinel.result[2]
        IN  /\ window[1] = [start |-> x - 5, stop |-> x + 10]
            /\ window[2] = [start |-> y - 5, stop |-> y + 10]
            /\ window[1].stop - window[1].start = 15
            /\ window[2].stop - window[2].start = 15
            /\ CropExtent = 15

C7_Witness ==
    /\ sentinel.done
    /\ sentinel.centroid = <<3, 20>>
    /\ sentinel.result[2] = <<[start |-> 15, stop |-> 30], [start |-> -2, stop |-> 13]>>

\* C8: every raw label v becomes clamp(v - 1, 0, 12): 0 and 1 become 0,
\* 2..13 become v - 1, 14 and more become 12.
C8_MaskRemap ==
    mask.done =>
        /\ Len(mask.result) = Len(mask.raw)
        /\ \A i \in DOMAIN mask.raw :
              /\ mask.result[i] \in 0..12
              /\ mask.raw[i] <= 1 => mask.result[i] = 0
              /\ mask.raw[i] \in 2..13 => mask.result[i] = mask.raw[i] - 1
              /\ mask.raw[i] >= 14 => mask.result[i] = 12

C8_Witness ==
    /\ mask.done
    /\ \E i, j \in DOMAIN mask.raw :
          /\ mask.raw[i] = 1 /\ mask.result[i] = 0
          /\ mask.raw[j] = 14 /\ mask.result[j] = 12

(***************************************************************************)
(* Instances of one process.                                               *)
(***************************************************************************)
\* C11: no construction changes what another instance uses: after a toy-mode
\* construction a normal-mode instance still resolves the original directory
\* names, and every toy-mode instance, the first as the second, resolves the
\* toy names.
C11_NoSharedState ==
    \A i \in DOMAIN instances :
        instances[i].out = "ok" =>
            resolve_dir_names(instances[i]) =
                IF instances[i].use_toy THEN toy_dir_names ELSE dir_names_initial

\* No construction touches the root or the index of an instance built before.
C11_InstancesKeepFields ==
    [][\A i \in DOMAIN instances :
          /\ i \in DOMAIN instances'
          /\ instances'[i].root = instances[i].root
          /\ instances'[i].files = instances[i].files]_vars

(* Retry after an interrupted acquisition. *)
\* The file system after the latest construction, with the directory names
\* that construction started from.
NowFS == [dirs |-> fs_dirs, files |-> fs_files, dir_names |-> prev_fs.dir_names]

\* The items of the configuration whose archive is on disk while the
\* extracted form is missing or without matching files.
PartialItems(fs, self) ==
    IF self.use_toy
    THEN IF HasZip(fs, toy_dataset) /\ ~ToyComplete(fs) THEN {toy_dataset} ELSE {}
    ELSE (IF HasZip(fs, centroids_file) /\ ~HasJson(fs) THEN {centroids_file} ELSE {})
         \cup {fs.dir_names[self.split][k] : k \in
                  {kk \in Range(ModalityKeys) :
                      /\ HasZip(fs, fs.dir_names[self.split][kk])
                      /\ ~ValidDir(fs, fs.dir_names[self.split][kk], kk)}}

\* Every needed item is there either extracted, valid or not, or as an archive,
\* or the run may download.
Repairable(fs, self) == self.download \/ ~SomeItemGone(fs, self)

\* C12: a verification that starts from a partial acquisition state (an
\* archive on disk, its extracted directory or file missing or without
\* matching files) extracts each such item again and, where the remaining
\* items are on disk or downloading is enabled, ends verified with everything
\* present; in normal mode and in toy mode.
C12_RetryRepairs ==
    Len(instances) >= 1 =>
        ((PartialItems(prev_fs, Last) # {} /\ Repairable(prev_fs, Last)) =>
            /\ Last.verify_out = "ok"
            /\ \A name \in PartialItems(prev_fs, Last) :
                  OpsOn(Last.log, {"extract"}, name) # {}
            /\ AllPresent(NowFS, Last))

====
